---- MODULE Spec2Model ----
(***************************************************************************)
(* Model of the DASH streaming-session manager of http-server-rs           *)
(* (src/src/main.rs): the DashStream session (init_stream,                 *)
(* request_segment, cleanup_old_segments, ensure_segment_window,           *)
(* restart_ffmpeg_at_segment), the two-stage pipeline launch, and the      *)
(* StreamManager registry with its idle sweep and the request handlers.    *)
(*                                                                         *)
(* The specifications share the variables:                                 *)
(*   Spec        one DashStream object driven through its methods          *)
(*   PipelineSpec  Spec with the packaging process writing its output      *)
(*   ServerSpec  the HTTP handlers, the registry and the sweep task        *)
(*   FairServerSpec  ServerSpec with the fairness of the clock and of the  *)
(*               sweep task's endless loop                                 *)
(*   HandlerSpec  the handlers step by step, with the registry lock        *)
(*   FairHandlerSpec  HandlerSpec with the polling loops going on          *)
(*   TwoManifestsSpec  two manifest requests for one source in flight      *)
(*   WidthSpec   the session with its segment numbers as u32               *)
(***************************************************************************)
EXTENDS Integers, Sequences, FiniteSets, TLC

VARIABLES
    streams,    \* StreamManager.streams: stream-id -> DashStream
    running,    \* OS view: the transcoder (stage-2) processes that are alive
    launches,   \* the number of pipeline launches attempted so far
    now,        \* SystemTime::now(), in seconds
    files,      \* the files of the served directory
    playback,   \* history of the calls made on the session of Spec
    last,       \* the call that returned last, and how
    lock,       \* the holder of the registry's Mutex: {} when it is free
    handlers    \* the requests in flight: where each handler stands

vars == <<streams, running, launches, now, files, playback, last, lock, handlers>>

----------------------------------------------------------------------------
(* Program constants *)

max_segments == 30
window_size == 5
initial_segments == 5
max_idle_time == 300

(* Bounds of the model *)

MaxPlayback == 11
FarFrom == 30
MaxSegmentNumber == 40
MaxLaunches == 2
SourceSegments == 48
ClockStep == 150
MaxNow == 600

\* the segment numbers requested: the start of the timeline, where playback
\* is sequential, and a stretch around and beyond the retention radius
SegmentNumbers == (0..MaxPlayback) \cup (FarFrom..MaxSegmentNumber)

\* What a pipeline launch can do: both stages succeed, stage 1 exits
\* non-zero, or stage 2 cannot be spawned.
LaunchOutcomes == {"ok", "segmentation_failed", "spawn_failed"}
LaunchFailures == LaunchOutcomes \ {"ok"}

----------------------------------------------------------------------------
(* Helpers *)

\* u32::saturating_sub
saturating_sub(a, b) == IF a >= b THEN a - b ELSE 0

\* SegmentInfo { number, last_accessed: Instant::now(), generated: false }
SegmentInfo(i, t) == [number |-> i, last_accessed |-> t, generated |-> FALSE]

\* HashMap::insert of a fresh SegmentInfo for every key of keys
\* (an existing entry is replaced)
InsertAll(segments, keys, t) ==
    [i \in (DOMAIN segments) \cup keys |->
        IF i \in keys THEN SegmentInfo(i, t) ELSE segments[i]]

\* the map with no entry
EmptyMap == [i \in {} |-> SegmentInfo(i, 0)]

\* process.kill(); process.wait() on the handle taken out of the session:
\* the process, if any, is dead when wait returns
KillAndWait(run, handle) == {p \in run : p.pid \notin handle}

\* what a session operation returns to the action that applies it
\* (result: what the caller gets; launch: "none" when no pipeline launch was
\* attempted, else how the launch ended; by: the method that attempted it)
Outcome(stream, run, np, result, launch, by) ==
    [stream |-> stream, running |-> run, launches |-> np,
     result |-> result, launch |-> launch, by |-> by]

----------------------------------------------------------------------------
(* DashStream *)

\* a file of the scratch directory: its name is the pieces of name, then
\* the decimal number if it has one (number is <<>> or <<k>>), then "." and
\* ext
ScratchFile(name, number, ext) == [name |-> name, number |-> number, ext |-> ext]

\* the freshly created scratch directory. segments: the k of the files
\* segments/segment<k>.webm; filelist: the k listed by filelist.txt; files:
\* the other files of the directory. pass (the files the latest
\* segmentation pass wrote) and holds (the source segment each media file
\* holds) record history for the properties.
NewTempDir ==
    [segments |-> {}, pass |-> {}, filelist |-> {}, files |-> {},
     holds |-> [k \in {} |-> 0]]

\* DashStream::new. ffmpeg_process is the Option as a set: {} is None, {p}
\* is Some(p). created_at and config are never read by the session logic
\* and are left out.
NewDashStream(source_path, t) ==
    [source_path |-> source_path,
     temp_dir |-> NewTempDir,
     ffmpeg_process |-> {},
     last_accessed |-> t,
     segments |-> EmptyMap,
     current_segment |-> 0]

\* stage 1 of a launch, the segmentation pass from a start segment: it
\* writes segments/segment0.webm, segment1.webm, ... one file per segment of
\* the source from the offset to its end, over the files already there; a
\* pass that exits non-zero is taken to have written nothing
segmentation_pass(temp_dir, start_segment) ==
    LET written == {k \in 0..(SourceSegments - 1) : start_segment + k < SourceSegments}
    IN [temp_dir EXCEPT !.segments = @ \cup written, !.pass = written]

\* filelist.txt is created anew with one line for every entry of the
\* segments directory whose name starts with "segment"
write_filelist(temp_dir) == [temp_dir EXCEPT !.filelist = temp_dir.segments]

\* the files stage 2 is told to write (-init_seg_name, -media_seg_name and
\* the output argument), for the first representation; the files of the
\* audio representation, named alike, are left out
Playlist == ScratchFile(<<"playlist">>, <<>>, "mpd")
InitSegment == ScratchFile(<<"init-", "stream0">>, <<>>, "webm")
MediaSegment(k) == ScratchFile(<<"chunk-", "stream0-">>, <<k>>, "webm")

\* what the stage-2 process launched from start_segment writes when it
\* packages the listed files: the manifest, the init segment and one media
\* segment per listed file, $Number$ counting from 1
dash_output(temp_dir, start_segment) ==
    LET numbers == 1..Cardinality(temp_dir.filelist)
    IN [temp_dir EXCEPT
            !.files = @ \cup {Playlist, InitSegment} \cup {MediaSegment(k) : k \in numbers},
            !.holds = [k \in (DOMAIN @) \cup numbers |->
                          IF k \in numbers THEN start_segment + k - 1 ELSE @[k]]]

\* the two-stage launch from a start segment: stage 1 runs to completion
\* inside the call, stage 2 is spawned and its handle returned. np launches
\* were attempted before this one; the spawned process is named by the
\* ordinal of its launch.
init_dash_pipeline_from_segment(id, temp_dir, start_segment, np, o) ==
    IF o = "segmentation_failed"
    THEN [ok |-> FALSE, process |-> {}, spawned |-> {}, temp_dir |-> temp_dir]
    ELSE IF o = "spawn_failed"
    THEN [ok |-> FALSE, process |-> {}, spawned |-> {},
          temp_dir |-> write_filelist(segmentation_pass(temp_dir, start_segment))]
    ELSE [ok |-> TRUE, process |-> {np + 1},
          spawned |-> {[pid |-> np + 1, stream |-> id, start |-> start_segment]},
          temp_dir |-> write_filelist(segmentation_pass(temp_dir, start_segment))]

\* the same launch without a seek offset
init_dash_pipeline(id, temp_dir, np, o) ==
    IF o = "segmentation_failed"
    THEN [ok |-> FALSE, process |-> {}, spawned |-> {}, temp_dir |-> temp_dir]
    ELSE IF o = "spawn_failed"
    THEN [ok |-> FALSE, process |-> {}, spawned |-> {},
          temp_dir |-> write_filelist(segmentation_pass(temp_dir, 0))]
    ELSE [ok |-> TRUE, process |-> {np + 1},
          spawned |-> {[pid |-> np + 1, stream |-> id, start |-> 0]},
          temp_dir |-> write_filelist(segmentation_pass(temp_dir, 0))]

\* DashStream::update_last_accessed
update_last_accessed(s, t) == [s EXCEPT !.last_accessed = t]

\* init_stream launching whether or not a handle is held: the handle of the
\* earlier process is overwritten
init_stream_always_launching(s, id, run, np, o, t) ==
    LET p == init_dash_pipeline(id, s.temp_dir, np, o)
    IN IF ~p.ok
       THEN Outcome([s EXCEPT !.temp_dir = p.temp_dir], run, np + 1, "err", o, "init_stream")
       ELSE Outcome([s EXCEPT !.ffmpeg_process = p.process,
                              !.temp_dir = p.temp_dir,
                              !.segments = InsertAll(@, 0..(initial_segments - 1), t)],
                    run \cup p.spawned, np + 1, "ok", "ok", "init_stream")

\* DashStream::init_stream
init_stream(s, id, run, np, o, t) ==
    IF s.ffmpeg_process = {}
    THEN LET p == init_dash_pipeline(id, s.temp_dir, np, o)
         IN IF ~p.ok
            THEN Outcome([s EXCEPT !.temp_dir = p.temp_dir], run, np + 1, "err", o, "init_stream")
            ELSE Outcome([s EXCEPT !.ffmpeg_process = p.process,
                                   !.temp_dir = p.temp_dir,
                                   !.segments = InsertAll(@, 0..(initial_segments - 1), t)],
                         run \cup p.spawned, np + 1, "ok", "ok", "init_stream")
    ELSE Outcome(s, run, np, "ok", "none", "none")

\* cleanup_old_segments removing the lower bound of the band as well
cleanup_old_segments_inclusive(s) ==
    LET segments_to_remove ==
            {num \in DOMAIN s.segments :
                num <= saturating_sub(s.current_segment, max_segments)}
    IN [s EXCEPT !.segments =
            [i \in (DOMAIN s.segments) \ segments_to_remove |-> s.segments[i]],
                 !.temp_dir.files =
            @ \ {ScratchFile(<<"chunk-">>, <<num>>, "m4s") : num \in segments_to_remove}]

\* DashStream::cleanup_old_segments
cleanup_old_segments(s) ==
    LET segments_to_remove ==
            {num \in DOMAIN s.segments :
                num < saturating_sub(s.current_segment, max_segments)}
    IN [s EXCEPT !.segments =
            [i \in (DOMAIN s.segments) \ segments_to_remove |-> s.segments[i]],
                 !.temp_dir.files =
            @ \ {ScratchFile(<<"chunk-">>, <<num>>, "m4s") : num \in segments_to_remove}]

\* ensure_segment_window launching over the process it holds: the old
\* handle is overwritten, its process neither killed nor waited for
ensure_segment_window_without_kill(s, id, run, np, o) ==
    LET target_segment == s.current_segment + window_size
    IN IF \E i \in DOMAIN s.segments :
              ~s.segments[i].generated /\ s.segments[i].number <= target_segment
       THEN LET p == init_dash_pipeline_from_segment(id, s.temp_dir, s.current_segment, np, o)
            IN IF ~p.ok
               THEN Outcome([s EXCEPT !.ffmpeg_process = {}, !.temp_dir = p.temp_dir],
                            run, np + 1, "err", o, "ensure_segment_window")
               ELSE Outcome(
                        [s EXCEPT !.ffmpeg_process = p.process,
                                  !.temp_dir = p.temp_dir,
                                  !.segments =
                                      [i \in DOMAIN @ |->
                                          IF i \in s.current_segment..target_segment
                                          THEN [@[i] EXCEPT !.generated = TRUE]
                                          ELSE @[i]]],
                        run \cup p.spawned, np + 1, "ok", "ok", "ensure_segment_window")
       ELSE Outcome(s, run, np, "ok", "none", "none")

\* DashStream::ensure_segment_window
ensure_segment_window(s, id, run, np, o) ==
    LET target_segment == s.current_segment + window_size
    IN IF \E i \in DOMAIN s.segments :
              ~s.segments[i].generated /\ s.segments[i].number <= target_segment
       THEN LET killed == KillAndWait(run, s.ffmpeg_process)
                p == init_dash_pipeline_from_segment(id, s.temp_dir, s.current_segment, np, o)
            IN IF ~p.ok
               THEN Outcome([s EXCEPT !.ffmpeg_process = {}, !.temp_dir = p.temp_dir],
                            killed, np + 1, "err", o, "ensure_segment_window")
               ELSE Outcome(
                        [s EXCEPT !.ffmpeg_process = p.process,
                                  !.temp_dir = p.temp_dir,
                                  !.segments =
                                      [i \in DOMAIN @ |->
                                          IF i \in s.current_segment..target_segment
                                          THEN [@[i] EXCEPT !.generated = TRUE]
                                          ELSE @[i]]],
                        killed \cup p.spawned, np + 1, "ok", "ok", "ensure_segment_window")
       ELSE Outcome(s, run, np, "ok", "none", "none")

\* restart_ffmpeg_at_segment killing the process without taking the handle
\* out of the session: a failed launch leaves the dead handle in place
restart_ffmpeg_at_segment_keeping_handle(s, id, start_segment, run, np, o) ==
    LET killed == KillAndWait(run, s.ffmpeg_process)
        p == init_dash_pipeline_from_segment(id, s.temp_dir, start_segment, np, o)
    IN IF ~p.ok
       THEN Outcome([s EXCEPT !.temp_dir = p.temp_dir],
                    killed, np + 1, "err", o, "restart_ffmpeg_at_segment")
       ELSE Outcome(
                [s EXCEPT !.ffmpeg_process = p.process,
                          !.temp_dir = p.temp_dir,
                          !.segments = [i \in DOMAIN @ |-> [@[i] EXCEPT !.generated = FALSE]]],
                killed \cup p.spawned, np + 1, "ok", "ok", "restart_ffmpeg_at_segment")

\* DashStream::restart_ffmpeg_at_segment
restart_ffmpeg_at_segment(s, id, start_segment, run, np, o) ==
    LET killed == KillAndWait(run, s.ffmpeg_process)
        p == init_dash_pipeline_from_segment(id, s.temp_dir, start_segment, np, o)
    IN IF ~p.ok
       THEN Outcome([s EXCEPT !.ffmpeg_process = {}, !.temp_dir = p.temp_dir],
                    killed, np + 1, "err", o, "restart_ffmpeg_at_segment")
       ELSE Outcome(
                [s EXCEPT !.ffmpeg_process = p.process,
                          !.temp_dir = p.temp_dir,
                          !.segments = [i \in DOMAIN @ |-> [@[i] EXCEPT !.generated = FALSE]]],
                killed \cup p.spawned, np + 1, "ok", "ok", "restart_ffmpeg_at_segment")

\* the seek test with the forward threshold one segment too far
is_seek_off_by_one(s, segment_number) ==
    \/ segment_number > s.current_segment + max_segments + 1
    \/ segment_number < saturating_sub(s.current_segment, max_segments)

\* the seek test of request_segment
is_seek(s, segment_number) ==
    \/ segment_number > s.current_segment + max_segments
    \/ segment_number < saturating_sub(s.current_segment, max_segments)

\* the final touch of request_segment also flagging the entry as generated
touch_segment_marking_generated(s, segment_number, t) ==
    IF segment_number \in DOMAIN s.segments
    THEN [s EXCEPT !.segments[segment_number].last_accessed = t,
                   !.segments[segment_number].generated = TRUE]
    ELSE s

\* the final touch of request_segment: the requested entry, if tracked,
\* gets last_accessed = now
touch_segment(s, segment_number, t) ==
    IF segment_number \in DOMAIN s.segments
    THEN [s EXCEPT !.segments[segment_number].last_accessed = t]
    ELSE s

\* DashStream::request_segment
request_segment(s0, id, segment_number, run, np, o, t) ==
    LET s == update_last_accessed(s0, t)
    IN IF is_seek(s, segment_number)
       THEN LET start_segment == saturating_sub(segment_number, 2)
                s1 == [s EXCEPT !.current_segment = segment_number,
                                !.segments =
                                    InsertAll(EmptyMap,
                                              start_segment..(segment_number + window_size), t)]
                r == restart_ffmpeg_at_segment(s1, id, start_segment, run, np, o)
            IN IF r.result = "err"
               THEN r
               ELSE [r EXCEPT !.stream = touch_segment(@, segment_number, t)]
       ELSE IF segment_number \notin DOMAIN s.segments
       THEN LET s1 == [s EXCEPT !.segments =
                          InsertAll(@, (s.current_segment..(segment_number + window_size))
                                          \ DOMAIN s.segments, t)]
            IN IF segment_number > s1.current_segment
               THEN LET s2 == cleanup_old_segments(
                                  [s1 EXCEPT !.current_segment = segment_number])
                        r == ensure_segment_window(s2, id, run, np, o)
                    IN IF r.result = "err"
                       THEN r
                       ELSE [r EXCEPT !.stream = touch_segment(@, segment_number, t)]
               ELSE Outcome(touch_segment(s1, segment_number, t), run, np, "ok", "none", "none")
       ELSE Outcome(touch_segment(s, segment_number, t), run, np, "ok", "none", "none")

----------------------------------------------------------------------------
(* Paths and the served directory *)

\* A path is a directory, a file name cut into pieces, and an extension:
\* ./chunk-5.m4s is [dir |-> ".", name |-> <<"chunk-", "5">>, ext |-> "m4s"].
ManifestPath(source) == [dir |-> ".", name |-> <<source>>, ext |-> "mpd"]
SegmentPath(text) == [dir |-> ".", name |-> <<"chunk-", text>>, ext |-> "m4s"]
InitSegmentPath == [dir |-> ".", name |-> <<"init-", "stream0">>, ext |-> "m4s"]
TraversalPath == [dir |-> "..", name |-> <<"movie">>, ext |-> "mpd"]
VideoPath(source, ext) == [dir |-> ".", name |-> <<source>>, ext |-> ext]

\* Path::with_extension
with_extension(path, ext) == [path EXCEPT !.ext = ext]

\* str::parse::<u32> on the texts that occur in requests; a text that is
\* not a numeral does not parse (the empty set)
U32Text == ("0" :> 0) @@ ("5" :> 5) @@ ("40" :> 40)
parse_u32(text) == IF text \in DOMAIN U32Text THEN {U32Text[text]} ELSE {}

\* the extensions find_source_video probes, in priority order
VideoExtensions == <<"mp4", "mkv">>

\* the served directory: the video library alone, or with files that carry
\* a segment's name lying next to the videos
Library == {VideoPath("movie", "mp4"), VideoPath("movie", "mkv")}
Layouts ==
    {Library,
     Library \cup {SegmentPath("5"), with_extension(SegmentPath("5"), "mkv")},
     Library \cup {SegmentPath("x"), with_extension(SegmentPath("x"), "mp4")}}

\* the logical sources clients play, and what a client playing a source
\* requests: its manifest, the init segment and media segments addressed
\* relative to the manifest, and a path that climbs out of the directory
Sources == {"movie", "nosuch"}
SegmentTexts == {"5", "x"}
ClientRequests ==
    {[source |-> s, kind |-> "manifest", path |-> ManifestPath(s)] : s \in Sources}
    \cup {[source |-> "movie", kind |-> "segment", path |-> SegmentPath(x)] :
             x \in SegmentTexts}
    \cup {[source |-> "movie", kind |-> "init", path |-> InitSegmentPath],
          [source |-> "movie", kind |-> "traversal", path |-> TraversalPath],
          [source |-> "movie", kind |-> "file", path |-> VideoPath("movie", "mp4")]}

----------------------------------------------------------------------------
(* StreamManager *)

\* StreamManager::new
NewStreamManager == [id \in {} |-> NewDashStream(VideoPath("movie", "mp4"), 0)]

\* StreamManager::get_stream_id
get_stream_id(path) == [dir |-> path.dir, name |-> path.name]

\* StreamManager::find_source_video: the first existing candidate, or none
find_source_video(requested_path, dir_files) ==
    LET found == {k \in 1..Len(VideoExtensions) :
                     with_extension(requested_path, VideoExtensions[k]) \in dir_files}
    IN IF found = {} THEN {}
       ELSE {with_extension(requested_path,
                 VideoExtensions[CHOOSE k \in found : \A j \in found : k <= j])}

\* StreamManager::get_or_create_stream
get_or_create_stream(registry, requested_path, dir_files, t) ==
    LET stream_id == get_stream_id(requested_path)
        source == find_source_video(requested_path, dir_files)
    IN IF stream_id \notin DOMAIN registry /\ source = {}
       THEN [ok |-> FALSE, streams |-> registry, stream_id |-> stream_id]
       ELSE LET inserted ==
                    IF stream_id \in DOMAIN registry THEN registry
                    ELSE [id \in (DOMAIN registry) \cup {stream_id} |->
                            IF id = stream_id
                            THEN NewDashStream(CHOOSE v \in source : TRUE, t)
                            ELSE registry[id]]
            IN [ok |-> TRUE,
                streams |-> [inserted EXCEPT ![stream_id] = update_last_accessed(@, t)],
                stream_id |-> stream_id]

\* the idle test of the sweep with >= in place of >: a session idle for
\* exactly max_idle_time is taken too
to_remove_inclusive(registry, t) ==
    {id \in DOMAIN registry :
        saturating_sub(t, registry[id].last_accessed) >= max_idle_time}

\* the sessions a sweep at time t finds idle for longer than max_idle_time
\* (duration_since: 0 when the clock is behind last_accessed)
to_remove(registry, t) ==
    {id \in DOMAIN registry :
        saturating_sub(t, registry[id].last_accessed) > max_idle_time}

\* a sweep that drops the idle sessions and leaves their processes running
cleanup_idle_streams_without_kill(registry, run, t) ==
    [streams |-> [id \in (DOMAIN registry) \ to_remove(registry, t) |-> registry[id]],
     running |-> run]

\* StreamManager::cleanup_idle_streams: every idle session is removed and
\* the process behind its handle killed (not waited for)
cleanup_idle_streams(registry, run, t) ==
    [streams |-> [id \in (DOMAIN registry) \ to_remove(registry, t) |-> registry[id]],
     running |-> {p \in run :
                    \A id \in to_remove(registry, t) :
                        p.pid \notin registry[id].ffmpeg_process}]

----------------------------------------------------------------------------
(* Request handlers *)

\* what a handler hands back: the registry and process table it leaves and
\* the response
Handled(registry, run, np, status, stream, n, result, launch, by) ==
    [streams |-> registry, running |-> run, launches |-> np, status |-> status,
     stream |-> stream, n |-> n, result |-> result, launch |-> launch, by |-> by]

\* the files the packaging pass writes into the session's scratch directory:
\* playlist.mpd, init-stream<rep>.webm and chunk-stream<rep>-<N>.webm
pipeline_writes(file_name, ext) ==
    \/ file_name = <<"playlist">> /\ ext = "mpd"
    \/ ext = "webm"

\* the bounded existence poll of a handler: the file is there at some check
\* only if a launched pipeline writes a file of that name and has got to it
\* (appeared) within the attempts
poll_exists(s, file_name, ext, appeared) ==
    /\ pipeline_writes(file_name, ext)
    /\ appeared

\* the response of serve_manifest once init_stream has returned r
manifest_response(registry, id, r, appeared) ==
    IF r.result = "err"
    THEN Handled([registry EXCEPT ![id] = r.stream], r.running, r.launches,
                 "500", {id}, 0, "err", r.launch, r.by)
    ELSE IF poll_exists(r.stream, <<"playlist">>, "mpd", appeared)
    THEN Handled([registry EXCEPT ![id] = r.stream], r.running, r.launches,
                 "200", {id}, 0, "ok", r.launch, r.by)
    ELSE Handled([registry EXCEPT ![id] = r.stream], r.running, r.launches,
                 "404", {id}, 0, "ok", r.launch, r.by)

\* serve_manifest
serve_manifest(registry, id, run, np, o, appeared, t) ==
    manifest_response(registry, id, init_stream(registry[id], id, run, np, o, t), appeared)

\* serve_init_segment
serve_init_segment(registry, id, path, run, np, appeared) ==
    IF poll_exists(registry[id], path.name, path.ext, appeared)
    THEN Handled(registry, run, np, "200", {id}, 0, "ok", "none", "none")
    ELSE Handled(registry, run, np, "404", {id}, 0, "ok", "none", "none")

\* the segment number of serve_segment: strip_prefix("chunk-"),
\* strip_suffix(".m4s"), parse::<u32>
segment_number_of(path) ==
    IF Len(path.name) = 2 /\ path.name[1] = "chunk-" /\ path.ext = "m4s"
    THEN parse_u32(path.name[2])
    ELSE {}

\* the response of serve_segment once request_segment has returned r
segment_response(registry, id, path, segment_number, r, appeared) ==
    IF r.result = "err"
    THEN Handled([registry EXCEPT ![id] = r.stream], r.running, r.launches,
                 "500", {id}, segment_number, "err", r.launch, r.by)
    ELSE IF poll_exists(r.stream, path.name, path.ext, appeared)
    THEN Handled([registry EXCEPT ![id] = r.stream], r.running, r.launches,
                 "200", {id}, segment_number, "ok", r.launch, r.by)
    ELSE Handled([registry EXCEPT ![id] = r.stream], r.running, r.launches,
                 "404", {id}, segment_number, "ok", r.launch, r.by)

\* serve_segment with the number parsed from the name
serve_numbered_segment(registry, id, path, segment_number, run, np, o, appeared, t) ==
    segment_response(registry, id, path, segment_number,
                     request_segment(registry[id], id, segment_number, run, np, o, t),
                     appeared)

\* serve_segment
serve_segment(registry, id, path, run, np, o, appeared, t) ==
    IF segment_number_of(path) = {}
    THEN Handled(registry, run, np, "400", {id}, 0, "err", "none", "none")
    ELSE serve_numbered_segment(registry, id, path,
                                CHOOSE n \in segment_number_of(path) : TRUE,
                                run, np, o, appeared, t)

\* serve_dash_stream once get_or_create_stream has returned g
dispatch(g, registry, final_path, run, np, o, appeared, t) ==
    IF ~g.ok
    THEN Handled(registry, run, np, "500", {}, 0, "err", "none", "none")
    ELSE IF final_path.ext = "mpd"
    THEN serve_manifest(g.streams, g.stream_id, run, np, o, appeared, t)
    ELSE IF final_path.ext = "m4s"
    THEN IF final_path.name[1] = "init-"
         THEN serve_init_segment(g.streams, g.stream_id, final_path, run, np, appeared)
         ELSE serve_segment(g.streams, g.stream_id, final_path, run, np, o, appeared, t)
    ELSE Handled(g.streams, run, np, "404", {g.stream_id}, 0, "err", "none", "none")

\* serve_dash_stream, holding the registry lock from entry to return
serve_dash_stream(registry, final_path, dir_files, run, np, o, appeared, t) ==
    dispatch(get_or_create_stream(registry, final_path, dir_files, t),
             registry, final_path, run, np, o, appeared, t)

\* serve_path up to its call of serve_dash_stream: does the request get
\* there
reaches_dash_stream(path, dir_files) ==
    /\ path.dir = "."
    /\ IF path \notin dir_files
       THEN path.ext = "mpd"
       ELSE path.ext \in {"mpd", "m4s"}

\* serve_path (the served directory holds no sub-directory)
serve_path(registry, path, dir_files, run, np, o, appeared, t) ==
    IF path.dir # "."
    THEN Handled(registry, run, np, "404", {}, 0, "err", "none", "none")
    ELSE IF reaches_dash_stream(path, dir_files)
    THEN serve_dash_stream(registry, path, dir_files, run, np, o, appeared, t)
    ELSE IF path \notin dir_files
    THEN Handled(registry, run, np, "404", {}, 0, "err", "none", "none")
    ELSE Handled(registry, run, np, "200", {}, 0, "ok", "none", "none")

----------------------------------------------------------------------------
(* The registry lock and the requests in flight *)

\* the handlers that run at a time: two requests can be in flight
Handlers == {"h1", "h2"}

\* Mutex::lock().await taking the lock regardless of its holder
can_lock_while_held(holder) == TRUE

\* Mutex::lock().await returns only when no one holds the lock
can_lock(holder) == holder = {}

\* a handler with no request
NoRequest == [source |-> "none", kind |-> "none", path |-> ManifestPath("none")]
IdleHandler == [pc |-> "idle", req |-> NoRequest, stream |-> {}, attempts |-> 0]
NoHandlers == [h \in Handlers |-> IdleHandler]

----------------------------------------------------------------------------
(* Spec: one session, its methods called in any order *)

TheStream == get_stream_id(ManifestPath("movie"))

\* the record kept of the call that returned last
Call(op, source, kind, stream, status, n, result, launch, by) ==
    [op |-> op, source |-> source, kind |-> kind, stream |-> stream,
     status |-> status, n |-> n, result |-> result, launch |-> launch, by |-> by,
     attempts |-> 0]

NoCall == Call("none", "movie", "none", {}, "none", 0, "ok", "none", "none")

Init ==
    /\ streams = [id \in {TheStream} |-> NewDashStream(VideoPath("movie", "mp4"), 0)]
    /\ running = {}
    /\ launches = 0
    /\ now = 0
    /\ files = {}
    /\ playback = [phase |-> "new", next |-> 0]
    /\ last = NoCall
    /\ lock = {}
    /\ handlers = NoHandlers

\* the effect of a session call that returned r
Returned(op, n, r) ==
    /\ streams' = [streams EXCEPT ![TheStream] = r.stream]
    /\ running' = r.running
    /\ launches' = r.launches
    /\ playback' =
          IF op = "init_stream"
          THEN IF playback.phase = "new" /\ r.result = "ok"
               THEN [phase |-> "sequential", next |-> 0]
               ELSE [phase |-> "other", next |-> 0]
          ELSE IF playback.phase = "sequential" /\ playback.next = n /\ r.result = "ok"
               THEN [phase |-> "sequential", next |-> n + 1]
               ELSE [phase |-> "other", next |-> 0]
    /\ last' = Call(op, "movie", "none", {TheStream}, "none", n, r.result, r.launch, r.by)
    /\ UNCHANGED <<now, files, lock, handlers>>

\* the session's init_stream is called; the launch, when the call makes
\* one, ends in any of the outcomes
InitStream ==
    /\ launches < MaxLaunches
    /\ \E o \in LaunchOutcomes :
        \E r \in {init_stream(streams[TheStream], TheStream, running, launches, o, now)} :
           /\ (r.launch = "none" => o = "ok")
           /\ Returned("init_stream", 0, r)

\* the session's request_segment(n) is called
RequestSegment ==
    /\ launches < MaxLaunches
    /\ \E n \in SegmentNumbers, o \in LaunchOutcomes :
        \E r \in {request_segment(streams[TheStream], TheStream, n, running, launches, o, now)} :
           /\ (r.launch = "none" => o = "ok")
           /\ Returned("request_segment", n, r)

Next == InitStream \/ RequestSegment

Spec == Init /\ [][Next]_vars

\* the stage-2 process behind a session's handle gets its output written
Package ==
    \E p \in running :
        /\ p.stream \in DOMAIN streams
        /\ p.pid \in streams[p.stream].ffmpeg_process
        /\ \E out \in {dash_output(streams[p.stream].temp_dir, p.start)} :
              /\ out # streams[p.stream].temp_dir
              /\ streams' = [streams EXCEPT ![p.stream].temp_dir = out]
        /\ last' = Call("ffmpeg", "none", "none", {p.stream}, "none", p.start, "ok", "none", "none")
        /\ UNCHANGED <<running, launches, now, files, playback, lock, handlers>>

\* PipelineSpec: the session of Spec together with its pipeline process
PipelineNext == InitStream \/ RequestSegment \/ Package

PipelineSpec == Init /\ [][PipelineNext]_vars

----------------------------------------------------------------------------
(* ServerSpec: clients, the registry and the sweep task *)

ServerInit ==
    /\ streams = NewStreamManager
    /\ running = {}
    /\ launches = 0
    /\ now = 0
    /\ files \in Layouts
    /\ playback = [phase |-> "other", next |-> 0]
    /\ last = NoCall
    /\ lock = {}
    /\ handlers = NoHandlers

\* a client's GET is handled by serve_path
ServePath ==
    /\ launches < MaxLaunches
    /\ can_lock(lock)
    /\ \E req \in ClientRequests, o \in LaunchOutcomes, appeared \in BOOLEAN :
        \E h \in {serve_path(streams, req.path, files, running, launches, o, appeared, now)} :
           /\ (h.launch = "none" => o = "ok")
           /\ streams' = h.streams
           /\ running' = h.running
           /\ launches' = h.launches
           /\ last' = Call("GET", req.source, req.kind, h.stream, h.status, h.n,
                            h.result, h.launch, h.by)
    /\ UNCHANGED <<now, files, playback, lock, handlers>>

\* cleanup_task: one turn of the loop; its 30 s sleep ends at any moment of
\* the model's clock
CleanupTask ==
    /\ can_lock(lock)
    /\ \E c \in {cleanup_idle_streams(streams, running, now)} :
          /\ streams' = c.streams
          /\ running' = c.running
    /\ last' = Call("cleanup_idle_streams", "movie", "none", {}, "none", 0,
                     "ok", "none", "none")
    /\ UNCHANGED <<launches, now, files, playback, lock, handlers>>

\* time passes (the clock is read at a resolution of ClockStep seconds)
Tick ==
    /\ now + ClockStep <= MaxNow
    /\ now' = now + ClockStep
    /\ UNCHANGED <<streams, running, launches, files, playback, last, lock, handlers>>

ServerNext == ServePath \/ CleanupTask \/ Tick

ServerSpec == ServerInit /\ [][ServerNext]_vars

\* the clock keeps advancing and the sweep task's loop never exits
FairServerSpec == ServerSpec /\ WF_vars(Tick) /\ WF_vars(CleanupTask)

----------------------------------------------------------------------------
(* HandlerSpec: the handlers step by step, several requests in flight *)

\* the attempts of the readiness polls of serve_manifest,
\* serve_init_segment and serve_segment
manifest_attempts == 50
init_attempts == 50
segment_attempts == 100

\* the served directories of HandlerSpec: a file with a segment's name, or
\* with the init segment's name, lies next to the videos
HandlerLayouts ==
    {Library \cup {SegmentPath("5"), with_extension(SegmentPath("5"), "mkv")},
     Library \cup {InitSegmentPath, with_extension(InitSegmentPath, "mp4")}}

\* the requests of its clients: manifests, a media segment and the init
\* segment
HandlerRequests ==
    {req \in ClientRequests :
        \/ req.kind \in {"manifest", "init"}
        \/ req.kind = "segment" /\ segment_number_of(req.path) # {}}

\* the file of the scratch directory a handler polls for: playlist.mpd, or
\* the requested file name
polled_file(path) ==
    IF path.ext = "mpd"
    THEN Playlist
    ELSE IF path.name[1] = "init-"
    THEN ScratchFile(path.name, <<>>, path.ext)
    ELSE ScratchFile(<<"chunk-">>, <<CHOOSE n \in segment_number_of(path) : TRUE>>, path.ext)

\* the bounds of the polling loops of manifests and media segments
\* exchanged
max_attempts_exchanged(path) ==
    IF path.ext = "mpd"
    THEN segment_attempts
    ELSE IF path.name[1] = "init-" THEN init_attempts ELSE manifest_attempts

\* the bound of its polling loop
max_attempts(path) ==
    IF path.ext = "mpd"
    THEN manifest_attempts
    ELSE IF path.name[1] = "init-" THEN init_attempts ELSE segment_attempts

HandlerInit ==
    /\ streams = NewStreamManager
    /\ running = {}
    /\ launches = 0
    /\ now = 0
    /\ files \in HandlerLayouts
    /\ playback = [phase |-> "other", next |-> 0]
    /\ last = NoCall
    /\ lock = {}
    /\ handlers = NoHandlers

\* a request reaches handler h: serve_path answers it at once, or calls
\* serve_dash_stream, which asks for the registry lock. (A request is only
\* let in while the launches it may make are within MaxLaunches.)
Arrive(h) ==
    /\ handlers[h].pc = "idle"
    /\ launches + Cardinality({g \in Handlers : handlers[g].pc = "lock"}) < MaxLaunches
    /\ \E req \in HandlerRequests :
        IF reaches_dash_stream(req.path, files)
        THEN /\ handlers' = [handlers EXCEPT ![h] = [IdleHandler EXCEPT !.pc = "lock", !.req = req]]
             /\ UNCHANGED last
        ELSE \E r \in {serve_path(streams, req.path, files, running, launches, "ok", FALSE, now)} :
                /\ last' = Call("GET", req.source, req.kind, r.stream, r.status, r.n,
                                 r.result, r.launch, r.by)
                /\ UNCHANGED handlers
    /\ UNCHANGED <<streams, running, launches, now, files, playback, lock>>

\* handler h gets the lock and runs serve_dash_stream up to the polling
\* loop: get_or_create_stream, then init_stream or request_segment. It
\* returns at once with an error response, releasing the lock, or starts
\* to poll with the lock held.
Enter(h) ==
    /\ handlers[h].pc = "lock"
    /\ can_lock(lock)
    /\ \E o \in LaunchOutcomes :
        \E e \in {serve_dash_stream(streams, handlers[h].req.path, files, running,
                                    launches, o, FALSE, now)} :
        LET req == handlers[h].req
        IN /\ (e.launch = "none" => o = "ok")
           /\ streams' = e.streams
           /\ running' = e.running
           /\ launches' = e.launches
           /\ IF e.result = "ok" /\ e.stream # {}
              THEN /\ lock' = {h}
                   /\ handlers' = [handlers EXCEPT ![h].pc = "poll", ![h].stream = e.stream]
                   /\ UNCHANGED last
              ELSE /\ lock' = {}
                   /\ handlers' = [handlers EXCEPT ![h] = IdleHandler]
                   /\ last' = Call("GET", req.source, req.kind, e.stream, e.status, e.n,
                                    e.result, e.launch, e.by)
    /\ UNCHANGED <<now, files, playback>>

\* one turn of the polling loop of handler h, or its end: the file is there
\* and is served; or it is not and the handler sleeps and counts an
\* attempt; or the attempts are used up and the answer is 404. The lock is
\* released when the handler returns. (The first turn is taken alone, the
\* remaining turns together, nothing happening in between.)
Poll(h) ==
    /\ handlers[h].pc = "poll"
    /\ LET hd == handlers[h]
           id == CHOOSE i \in hd.stream : TRUE
           respond(status) ==
               /\ handlers' = [handlers EXCEPT ![h] = IdleHandler]
               /\ lock' = {}
               /\ last' = [Call("GET", hd.req.source, hd.req.kind, hd.stream, status, 0,
                                 "ok", "none", "none") EXCEPT !.attempts = hd.attempts]
       IN IF polled_file(hd.req.path) \in streams[id].temp_dir.files
          THEN respond("200")
          ELSE IF hd.attempts < max_attempts(hd.req.path)
          THEN /\ \E k \in {hd.attempts + 1, max_attempts(hd.req.path)} :
                    /\ (k < max_attempts(hd.req.path) => hd.attempts = 0)
                    /\ handlers' = [handlers EXCEPT ![h].attempts = k]
               /\ UNCHANGED <<lock, last>>
          ELSE respond("404")
    /\ UNCHANGED <<streams, running, launches, now, files, playback>>

\* a long pause: the clock moves on by more than max_idle_time, to MaxNow
LongPause ==
    /\ now + max_idle_time < MaxNow
    /\ now' = MaxNow
    /\ UNCHANGED <<streams, running, launches, files, playback, last, lock, handlers>>

HandlerNext ==
    \/ \E h \in Handlers : Arrive(h) \/ Enter(h) \/ Poll(h)
    \/ CleanupTask
    \/ LongPause
    \/ Package

HandlerSpec == HandlerInit /\ [][HandlerNext]_vars

\* the sleeps of a polling loop end and the loop goes on
FairHandlerSpec == HandlerSpec /\ \A h \in Handlers : WF_vars(Poll(h))

----------------------------------------------------------------------------
(* TwoManifestsSpec: two manifest requests for one source in flight *)

\* the manifest requests of the clients
ManifestRequests == {req \in HandlerRequests : req.kind = "manifest"}

\* both handlers have been handed a GET of the same manifest and wait for
\* the registry lock; nothing has been served before
TwoManifestsInit ==
    /\ streams = NewStreamManager
    /\ running = {}
    /\ launches = 0
    /\ now = 0
    /\ files \in HandlerLayouts
    /\ playback = [phase |-> "other", next |-> 0]
    /\ last = NoCall
    /\ lock = {}
    /\ \E req \in ManifestRequests :
          handlers = [h \in Handlers |-> [IdleHandler EXCEPT !.pc = "lock", !.req = req]]

\* the launch a step makes, if it makes one, succeeds: its process runs
LaunchSucceeds ==
    launches' > launches => \E p \in running' : p.pid = launches'

\* handler h gets the lock and runs serve_dash_stream up to its polling
\* loop, ffmpeg doing its work
EnterLaunching(h) == Enter(h) /\ LaunchSucceeds

\* the two handlers, the sweep, the clock and the pipeline process, in any
\* order; no further request arrives
TwoManifestsNext ==
    \/ \E h \in Handlers : EnterLaunching(h) \/ Poll(h)
    \/ CleanupTask
    \/ LongPause
    \/ Package

TwoManifestsSpec == TwoManifestsInit /\ [][TwoManifestsNext]_vars

----------------------------------------------------------------------------
(* WidthSpec: the session with its segment numbers at their width *)

\* a u32 is kept as its two 16-bit halves: the number is hi * 2^16 + lo
HalfRange == 65536
u32(hi, lo) == [hi |-> hi, lo |-> lo]

\* a constant of the program (below 2^16) as a u32
as_u32(k) == u32(0, k)

\* u32::MAX
u32_MAX == u32(HalfRange - 1, HalfRange - 1)

\* a < b and a <= b on u32
u32_lt(a, b) == a.hi < b.hi \/ (a.hi = b.hi /\ a.lo < b.lo)
u32_le(a, b) == a = b \/ u32_lt(a, b)

\* u32::overflowing_add: the sum cut to 32 bits, and whether it went beyond
overflowing_add(a, b) ==
    [value |-> u32((a.hi + b.hi + ((a.lo + b.lo) \div HalfRange)) % HalfRange,
                   (a.lo + b.lo) % HalfRange),
     overflow |-> a.hi + b.hi + ((a.lo + b.lo) \div HalfRange) >= HalfRange]

\* u32::saturating_sub
u32_saturating_sub(a, b) ==
    IF u32_lt(a, b) THEN as_u32(0)
    ELSE IF a.lo >= b.lo THEN u32(a.hi - b.hi, a.lo - b.lo)
    ELSE u32(a.hi - b.hi - 1, a.lo + HalfRange - b.lo)

\* the range a..=b (empty when b < a). The ranges of the session are never
\* longer than max_segments + window_size + 1 numbers.
range_inclusive(a, b) ==
    {x \in {overflowing_add(a, as_u32(k)).value :
               k \in {j \in 0..(max_segments + window_size) :
                         ~overflowing_add(a, as_u32(j)).overflow}} :
        u32_le(x, b)}

\* the sums of the session, named as the source writes them
SeekBound == "self.current_segment + self.max_segments"
RangeEnd == "segment_number + self.window_size"
TargetSegment == "self.current_segment + self.window_size"

\* what a call of the session returns here: as Outcome, with the sums that
\* overflowed in the call. result is "panic" when a sum overflowed in a
\* build that checks for overflow: the call unwinds where it is.
WidthOutcome(stream, run, np, result, launch, overflowed) ==
    [stream |-> stream, running |-> run, launches |-> np,
     result |-> result, launch |-> launch, overflowed |-> overflowed]

\* the sums of sums that overflowed
Overflowed(sums, name) == IF sums.overflow THEN {name} ELSE {}

\* the launch of the pipeline from a start segment, without the files it
\* writes
launch_u32(id, start_segment, np, o) ==
    IF o = "ok"
    THEN [ok |-> TRUE, process |-> {np + 1},
          spawned |-> {[pid |-> np + 1, stream |-> id, start |-> start_segment]}]
    ELSE [ok |-> FALSE, process |-> {}, spawned |-> {}]

\* DashStream::restart_ffmpeg_at_segment
restart_ffmpeg_at_segment_u32(s, id, start_segment, run, np, o, overflowed) ==
    IF ~launch_u32(id, start_segment, np, o).ok
    THEN WidthOutcome([s EXCEPT !.ffmpeg_process = {}],
                      KillAndWait(run, s.ffmpeg_process), np + 1, "err", o, overflowed)
    ELSE WidthOutcome(
             [s EXCEPT !.ffmpeg_process = launch_u32(id, start_segment, np, o).process,
                       !.segments = [i \in DOMAIN @ |-> [@[i] EXCEPT !.generated = FALSE]]],
             KillAndWait(run, s.ffmpeg_process)
                 \cup launch_u32(id, start_segment, np, o).spawned,
             np + 1, "ok", "ok", overflowed)

\* DashStream::cleanup_old_segments
cleanup_old_segments_u32(s) ==
    [s EXCEPT !.segments =
        [i \in {num \in DOMAIN s.segments :
                   ~u32_lt(num, u32_saturating_sub(s.current_segment, as_u32(max_segments)))}
            |-> s.segments[i]]]

\* DashStream::ensure_segment_window once target_segment has been computed
ensure_window_to(s, id, target_segment, run, np, o, overflowed) ==
    IF \E i \in DOMAIN s.segments :
          ~s.segments[i].generated /\ u32_le(s.segments[i].number, target_segment)
    THEN IF ~launch_u32(id, s.current_segment, np, o).ok
         THEN WidthOutcome([s EXCEPT !.ffmpeg_process = {}],
                           KillAndWait(run, s.ffmpeg_process), np + 1, "err", o, overflowed)
         ELSE WidthOutcome(
                  [s EXCEPT !.ffmpeg_process = launch_u32(id, s.current_segment, np, o).process,
                            !.segments =
                                [i \in DOMAIN @ |->
                                    IF i \in range_inclusive(s.current_segment, target_segment)
                                    THEN [@[i] EXCEPT !.generated = TRUE]
                                    ELSE @[i]]],
                  KillAndWait(run, s.ffmpeg_process)
                      \cup launch_u32(id, s.current_segment, np, o).spawned,
                  np + 1, "ok", "ok", overflowed)
    ELSE WidthOutcome(s, run, np, "ok", "none", overflowed)

\* DashStream::ensure_segment_window
ensure_segment_window_u32(s, id, target, run, np, o, overflow_checks, overflowed) ==
    IF target.overflow /\ overflow_checks
    THEN WidthOutcome(s, run, np, "panic", "none", overflowed \cup {TargetSegment})
    ELSE ensure_window_to(s, id, target.value, run, np, o,
                          overflowed \cup Overflowed(target, TargetSegment))

\* the requested entry's last_accessed is refreshed when the call went well
touched(r, segment_number, t) ==
    IF r.result = "ok"
    THEN [r EXCEPT !.stream = touch_segment(@, segment_number, t)]
    ELSE r

\* request_segment, the seek branch, once segment_number + window_size has
\* been computed
seek_to(s, id, segment_number, end, run, np, o, overflow_checks, overflowed, t) ==
    IF end.overflow /\ overflow_checks
    THEN WidthOutcome([s EXCEPT !.current_segment = segment_number, !.segments = EmptyMap],
                      run, np, "panic", "none", overflowed \cup {RangeEnd})
    ELSE touched(
             restart_ffmpeg_at_segment_u32(
                 [s EXCEPT !.current_segment = segment_number,
                           !.segments =
                               InsertAll(EmptyMap,
                                         range_inclusive(
                                             u32_saturating_sub(segment_number, as_u32(2)),
                                             end.value), t)],
                 id, u32_saturating_sub(segment_number, as_u32(2)), run, np, o,
                 overflowed \cup Overflowed(end, RangeEnd)),
             segment_number, t)

\* request_segment, the branch of an untracked number, once
\* segment_number + window_size has been computed
fill_to(s, id, segment_number, end, run, np, o, overflow_checks, overflowed, t) ==
    IF end.overflow /\ overflow_checks
    THEN WidthOutcome(s, run, np, "panic", "none", overflowed \cup {RangeEnd})
    ELSE IF u32_lt(s.current_segment, segment_number)
    THEN touched(
             ensure_segment_window_u32(
                 cleanup_old_segments_u32(
                     [s EXCEPT !.current_segment = segment_number,
                               !.segments =
                                   InsertAll(@, range_inclusive(s.current_segment, end.value)
                                                   \ DOMAIN s.segments, t)]),
                 id, overflowing_add(segment_number, as_u32(window_size)),
                 run, np, o, overflow_checks,
                 overflowed \cup Overflowed(end, RangeEnd)),
             segment_number, t)
    ELSE WidthOutcome(
             touch_segment(
                 [s EXCEPT !.segments =
                     InsertAll(@, range_inclusive(s.current_segment, end.value)
                                     \ DOMAIN s.segments, t)],
                 segment_number, t),
             run, np, "ok", "none", overflowed \cup Overflowed(end, RangeEnd))

\* request_segment once current_segment + max_segments has been computed
request_with_bound(s, id, segment_number, bound, run, np, o, overflow_checks, t) ==
    IF bound.overflow /\ overflow_checks
    THEN WidthOutcome(s, run, np, "panic", "none", {SeekBound})
    ELSE IF \/ u32_lt(bound.value, segment_number)
            \/ u32_lt(segment_number,
                      u32_saturating_sub(s.current_segment, as_u32(max_segments)))
    THEN seek_to(s, id, segment_number,
                 overflowing_add(segment_number, as_u32(window_size)),
                 run, np, o, overflow_checks, Overflowed(bound, SeekBound), t)
    ELSE IF segment_number \notin DOMAIN s.segments
    THEN fill_to(s, id, segment_number,
                 overflowing_add(segment_number, as_u32(window_size)),
                 run, np, o, overflow_checks, Overflowed(bound, SeekBound), t)
    ELSE WidthOutcome(touch_segment(s, segment_number, t), run, np, "ok", "none",
                      Overflowed(bound, SeekBound))

\* DashStream::request_segment on u32 numbers. overflow_checks: whether the
\* build panics on an overflowing sum (it wraps around otherwise).
request_segment_u32(s0, id, segment_number, run, np, o, overflow_checks, t) ==
    request_with_bound(update_last_accessed(s0, t), id, segment_number,
                       overflowing_add(s0.current_segment, as_u32(max_segments)),
                       run, np, o, overflow_checks, t)

\* the segment numbers requested: the last ones a u32 can hold, and 0
FromTop == 31
TopSegmentNumbers ==
    {as_u32(0)} \cup {u32_saturating_sub(u32_MAX, as_u32(k)) : k \in 0..FromTop}

\* the record kept of the call that returned last; overflow_checks is the
\* build's setting, the same for every call
WidthCall(op, n, result, launch, overflowed, overflow_checks) ==
    [op |-> op, n |-> n, result |-> result, launch |-> launch,
     overflowed |-> overflowed, overflow_checks |-> overflow_checks]

\* a new session; the program was built with overflow checks or without
WidthInit ==
    /\ streams = [id \in {TheStream} |->
                    [NewDashStream(VideoPath("movie", "mp4"), 0)
                        EXCEPT !.current_segment = as_u32(0)]]
    /\ running = {}
    /\ launches = 0
    /\ now = 0
    /\ files = {}
    /\ playback = [phase |-> "other", next |-> 0]
    /\ \E overflow_checks \in BOOLEAN :
          last = WidthCall("none", as_u32(0), "ok", "none", {}, overflow_checks)
    /\ lock = {}
    /\ handlers = NoHandlers

\* the session's request_segment(n) is called
RequestSegmentU32 ==
    /\ launches < MaxLaunches
    /\ \E n \in TopSegmentNumbers, o \in LaunchOutcomes :
        \E r \in {request_segment_u32(streams[TheStream], TheStream, n, running,
                                      launches, o, last.overflow_checks, now)} :
           /\ (r.launch = "none" => o = "ok")
           /\ streams' = [streams EXCEPT ![TheStream] = r.stream]
           /\ running' = r.running
           /\ launches' = r.launches
           /\ last' = WidthCall("request_segment", n, r.result, r.launch, r.overflowed,
                                last.overflow_checks)
    /\ UNCHANGED <<now, files, playback, lock, handlers>>

WidthNext == RequestSegmentU32

WidthSpec == WidthInit /\ [][WidthNext]_vars

----------------------------------------------------------------------------
(* Properties of the session *)

TheSession == streams[TheStream]
Tracked == DOMAIN TheSession.segments
Generated == {k \in Tracked : TheSession.segments[k].generated}
RetentionFloor == saturating_sub(TheSession.current_segment, max_segments)

\* C1: at most one transcoder process launched for a session is alive, and
\* it is the one whose handle the session holds: a launch leaves no earlier
\* process of the session running.
C1_AtMostOneSubprocess ==
    /\ \A p, q \in running : p.stream = q.stream => p = q
    /\ \A p \in running :
          p.stream \in DOMAIN streams => p.pid \in streams[p.stream].ffmpeg_process

\* C1 witness: a second launch has replaced the process of the first one
C1_Witness ==
    /\ playback.phase = "sequential"
    /\ running = {[pid |-> 2, stream |-> TheStream, start |-> 5]}

\* C2: after a completed init_stream or request_segment every tracked
\* number lies in [max(0, current_segment - max_segments),
\* current_segment + window_size].
C2_TrackedWithinBand ==
    last.op \in {"init_stream", "request_segment"} =>
        \A k \in Tracked :
            /\ RetentionFloor <= k
            /\ k <= TheSession.current_segment + window_size

\* C3: a request_segment(n) with n beyond the retention radius of
\* current_segment (forward, or backward with the bound clamped at 0)
\* returns with current_segment = n and the tracked set exactly
\* max(0, n-2) .. n + window_size, every entry generated = false.
C3_SeekRepopulates ==
    [][(/\ last'.op = "request_segment"
        /\ \/ last'.n > TheSession.current_segment + max_segments
           \/ last'.n < (IF TheSession.current_segment > max_segments
                         THEN TheSession.current_segment - max_segments ELSE 0))
       => (/\ TheSession'.current_segment = last'.n
           /\ Tracked' = (IF last'.n > 2 THEN last'.n - 2 ELSE 0)..(last'.n + window_size)
           /\ Generated' = {})]_vars

\* C3 witness: the request for segment 40 has returned and left [38, 45]
C3_Witness ==
    /\ last.op = "request_segment" /\ last.n = 40 /\ last.result = "ok"
    /\ last.by = "restart_ffmpeg_at_segment"
    /\ TheSession.current_segment = 40
    /\ Tracked = 38..45

\* C6: on an initialised session asked for 0, 1, 2, ... in order, a request
\* n with n <= current_segment + window_size launches nothing.
C6_NoRestartInsideWindow ==
    [][(/\ playback.phase = "sequential"
        /\ last'.op = "request_segment"
        /\ last'.n = playback.next
        /\ last'.n <= TheSession.current_segment + window_size)
       => last'.launch = "none"]_vars

\* C7: after an ensure_segment_window that relaunched the pipeline the
\* generated segments are exactly current_segment ..
\* current_segment + window_size.
C7_GeneratedExactlyWindow ==
    (last.by = "ensure_segment_window" /\ last.launch = "ok") =>
        Generated = TheSession.current_segment..(TheSession.current_segment + window_size)

\* C8: init_stream on a new session followed by requests 0..5 in order has
\* launched the pipeline exactly once when the six requests have returned.
C8_OneLaunchForFirstSix ==
    (playback.phase = "sequential" /\ playback.next = 6) => launches = 1

\* C9: the request that follows a request_segment(n) failed by its launch,
\* and asks for the same n, attempts the launch again.
C9_RetryAfterFailedLaunch ==
    [][(/\ last.op = "request_segment" /\ last.launch \in LaunchFailures
        /\ last'.op = "request_segment" /\ last'.n = last.n)
       => last'.launch # "none"]_vars

\* C10: a call in which the pipeline launch fails (stage 1 or stage 2)
\* returns an error and leaves the session without a subprocess handle and
\* without a running process; a failed init_stream tracks no new segment.
C10_FailedLaunchLeavesNoHandle ==
    [][last'.launch \in LaunchFailures =>
        (/\ last'.result = "err"
         /\ TheSession'.ffmpeg_process = {}
         /\ running' = {}
         /\ last'.op = "init_stream" => TheSession'.segments = TheSession.segments)]_vars

\* C10 witness: a restart whose stage 2 could not be spawned has returned,
\* on a session that held a process before
C10_Witness ==
    /\ last.launch = "spawn_failed"
    /\ last.by = "restart_ffmpeg_at_segment"
    /\ launches >= 2
    /\ TheSession.ffmpeg_process = {}

\* C12: init_stream on a session that holds a subprocess handle launches
\* nothing and changes neither the session (tracked map, generated flags,
\* current_segment, handle) nor the running processes; so a second
\* init_stream right after the successful first one of a new session leaves
\* one launch at offset 0 and segments 0 .. initial_segments - 1, none
\* generated.
C12_InitStreamIdempotent ==
    [][(last'.op = "init_stream" /\ TheSession.ffmpeg_process # {}) =>
        (/\ last'.result = "ok" /\ last'.launch = "none"
         /\ launches' = launches
         /\ running' = running
         /\ TheSession' = TheSession
         /\ (last.op = "init_stream" /\ playback.phase = "sequential" /\ playback.next = 0) =>
               (/\ launches' = 1
                /\ running' = {[pid |-> 1, stream |-> TheStream, start |-> 0]}
                /\ Tracked' = 0..(initial_segments - 1)
                /\ Generated' = {}
                /\ TheSession'.current_segment = 0))]_vars

\* C12 witness: a second init_stream has returned right after the first
\* launch of the session
C12_Witness ==
    /\ last.op = "init_stream" /\ last.launch = "none"
    /\ launches = 1
    /\ TheSession.ffmpeg_process = {1}
    /\ Tracked = 0..(initial_segments - 1)
    /\ playback.phase = "other"

\* C17: a request_segment(n) that runs the eviction pass (n inside the
\* retention radius, untracked, beyond current_segment) returns with no
\* tracked number below max(0, current_segment - max_segments), and with
\* every number that was tracked when the pass began (the entries held
\* before and the gap just filled) and is not below that bound still tracked.
C17_EvictionKeepsBand ==
    [][(/\ last'.op = "request_segment"
        /\ last'.n <= TheSession.current_segment + max_segments
        /\ last'.n > TheSession.current_segment
        /\ last'.n \notin Tracked)
       => LET bound == IF TheSession'.current_segment > max_segments
                       THEN TheSession'.current_segment - max_segments ELSE 0
              before == Tracked \cup (TheSession.current_segment..(last'.n + window_size))
          IN /\ TheSession'.current_segment = last'.n
             /\ \A k \in Tracked' : k >= bound
             /\ \A k \in before : k >= bound => k \in Tracked'
             /\ Tracked' \subseteq before]_vars

\* C17 witness: the request for segment 35 of a session at segment 5 has
\* evicted 0..4 and kept 5..40
C17_Witness ==
    /\ last.op = "request_segment" /\ last.n = 35
    /\ last.by = "ensure_segment_window"
    /\ TheSession.current_segment = 35
    /\ RetentionFloor = 5
    /\ Tracked = 5..40

\* C20: request_segment(n) for a tracked n inside the retention band
\* launches nothing and leaves current_segment, the tracked numbers, the
\* generated flags, the subprocess handle and the running processes as they
\* were.
C20_TrackedRequestOnlyTouches ==
    [][(/\ last'.op = "request_segment"
        /\ last'.n \in Tracked
        /\ last'.n <= TheSession.current_segment + max_segments
        /\ last'.n >= (IF TheSession.current_segment > max_segments
                       THEN TheSession.current_segment - max_segments ELSE 0))
       => (/\ last'.result = "ok" /\ last'.launch = "none"
           /\ launches' = launches
           /\ running' = running
           /\ TheSession'.current_segment = TheSession.current_segment
           /\ Tracked' = Tracked
           /\ Generated' = Generated
           /\ TheSession'.ffmpeg_process = TheSession.ffmpeg_process
           /\ TheSession'.source_path = TheSession.source_path)]_vars

\* C20 witness: segment 3 of the initial five has been requested on a
\* session that holds its first process; nothing is generated and
\* current_segment is still 0
C20_Witness ==
    /\ last.op = "request_segment" /\ last.n = 3 /\ last.launch = "none"
    /\ TheSession.ffmpeg_process = {1}
    /\ TheSession.current_segment = 0
    /\ Tracked = 0..(initial_segments - 1)
    /\ Generated = {}

\* C18: when a request_segment returns, the media file the pipeline wrote
\* for any segment number the call dropped from the tracked map (evicted by
\* cleanup_old_segments, or cleared by a seek) is no longer in the session's
\* scratch directory.
C18_EvictedArtifactsDeleted ==
    [][last'.op = "request_segment" =>
        \A n \in Tracked \ Tracked' :
            \A k \in DOMAIN TheSession'.temp_dir.holds :
                TheSession'.temp_dir.holds[k] = n =>
                    MediaSegment(k) \notin TheSession'.temp_dir.files]_vars

\* C19: after a call that ran the segmentation pass of a launch, filelist.txt
\* lists only files that this pass wrote.
C19_FilelistOwnPass ==
    last.launch \in {"ok", "spawn_failed"} =>
        TheSession.temp_dir.filelist \subseteq TheSession.temp_dir.pass

\* C21: when a request_segment(n) has returned Ok, n is tracked and its
\* entry's last_accessed is the time of the call.
C21_RequestedSegmentTracked ==
    (last.op = "request_segment" /\ last.result = "ok") =>
        /\ last.n \in Tracked
        /\ TheSession.segments[last.n].last_accessed = now

\* C22: when a request_segment(n) has returned Ok, the session holds the
\* handle of a subprocess that is running.
C22_RequestLeavesHandle ==
    (last.op = "request_segment" /\ last.result = "ok") =>
        \E p \in running :
            p.stream = TheStream /\ TheSession.ffmpeg_process = {p.pid}

----------------------------------------------------------------------------
(* Properties of the registry *)

\* C4: a media-segment request of a client playing a source whose manifest
\* request has opened a session is served by that very session: it resolves
\* to the stream-id of the manifest.
C4_SegmentFindsManifestSession ==
    (/\ last.op = "GET" /\ last.kind = "segment"
     /\ get_stream_id(ManifestPath(last.source)) \in DOMAIN streams)
    => last.stream = {get_stream_id(ManifestPath(last.source))}

\* C13: a media-segment request rejected as invalid input (status 400)
\* leaves the registry, every session and the running processes as they
\* were, and launches nothing.
C13_MalformedSegmentTouchesNothing ==
    [][(last'.op = "GET" /\ last'.kind = "segment" /\ last'.status = "400") =>
        (/\ streams' = streams
         /\ running' = running
         /\ launches' = launches)]_vars

\* the stream-ids and the access times sessions can have
StreamIds == {get_stream_id(req.path) : req \in ClientRequests}
EarlyTimes == {t \in 0..MaxNow : t % ClockStep = 0 /\ t + max_idle_time + ClockStep <= MaxNow}

\* C5: a sweep removes every session idle for longer than max_idle_time and
\* leaves none of its processes running; and a session that is not accessed
\* again is eventually removed.
C5_IdleSessionsEvicted ==
    /\ [][(last'.op = "cleanup_idle_streams" /\ now' = now) =>
            \A id \in DOMAIN streams :
                now - streams[id].last_accessed > max_idle_time =>
                    /\ id \notin DOMAIN streams'
                    /\ \A p \in running' : p.stream # id]_vars
    /\ \A id \in StreamIds : \A t \in EarlyTimes :
          (id \in DOMAIN streams /\ streams[id].last_accessed = t)
              ~> ~(id \in DOMAIN streams /\ streams[id].last_accessed = t)

\* C5 witness: a sweep has emptied the registry of a session that had
\* launched a pipeline, and nothing is left running
C5_Witness ==
    /\ last.op = "cleanup_idle_streams"
    /\ now > max_idle_time
    /\ launches >= 1
    /\ DOMAIN streams = {}
    /\ running = {}

\* C24: a sweep keeps every session that has not been idle for longer than
\* max_idle_time: it is still in the registry afterwards, unchanged (tracked
\* map, current_segment, subprocess handle and the rest), and the process
\* behind its handle is still running.
C24_SweepKeepsActiveSessions ==
    [][(last'.op = "cleanup_idle_streams" /\ now' = now) =>
        \A id \in DOMAIN streams :
            now - streams[id].last_accessed <= max_idle_time =>
                /\ id \in DOMAIN streams'
                /\ streams'[id] = streams[id]
                /\ \A p \in running :
                      p.pid \in streams[id].ffmpeg_process => p \in running']_vars

\* C24 witness: a sweep has returned and left in the registry a session,
\* with its process running, that was opened after an earlier launch and
\* accessed within max_idle_time
C24_Witness ==
    /\ last.op = "cleanup_idle_streams"
    /\ launches = 2
    /\ \E id \in DOMAIN streams :
          /\ DOMAIN streams = {id}
          /\ now - streams[id].last_accessed <= max_idle_time
          /\ now > max_idle_time
          /\ streams[id].ffmpeg_process = {2}
          /\ \E p \in running : p.pid = 2 /\ p.stream = id

----------------------------------------------------------------------------
(* Properties of the handlers *)

\* C11: a manifest request whose base name matches no source file is
\* answered 404, and only when the attempts of the manifest poll are used
\* up.
C11_MissingSourceNotFoundAfterPoll ==
    (/\ last.op = "GET" /\ last.kind = "manifest"
     /\ find_source_video(ManifestPath(last.source), files) = {})
    => (last.status = "404" /\ last.attempts = manifest_attempts)

\* a session without its scratch directory: what the registry lock guards
SessionState(s) == [s EXCEPT !.temp_dir = NewTempDir]

\* C14: a handler that polls holds the registry lock, so at most one handler
\* is past get_or_create_stream at a time; and while a handler polls no
\* step of another handler or of the sweep touches the registry: no session
\* is added or removed (the polling handler's session stays), no session
\* changes, no process is launched or killed.
C14_LockExcludes ==
    /\ [](\A h \in Handlers :
            handlers[h].pc = "poll" =>
                (lock = {h} /\ handlers[h].stream \subseteq DOMAIN streams))
    /\ [][(\E h \in Handlers : handlers[h].pc = "poll") =>
            (/\ DOMAIN streams' = DOMAIN streams
             /\ \A id \in DOMAIN streams :
                   SessionState(streams'[id]) = SessionState(streams[id])
             /\ running' = running
             /\ launches' = launches)]_vars

\* C14 witness: a handler polls on a session that has been idle for longer
\* than max_idle_time while the other handler waits for the lock
C14_Witness ==
    \E h, g \in Handlers :
        /\ handlers[h].pc = "poll"
        /\ handlers[g].pc = "lock"
        /\ \E id \in handlers[h].stream :
              /\ id \in DOMAIN streams
              /\ now - streams[id].last_accessed > max_idle_time

\* C15: while a handler is in its polling loop, a handler that is about to
\* call get_or_create_stream can take the registry lock.
C15_PollingDoesNotBlock ==
    \A h, g \in Handlers :
        (handlers[h].pc = "poll" /\ handlers[g].pc = "lock") => can_lock(lock)

C25_OneSessionOneLaunch ==
    (/\ \A h \in Handlers : handlers[h].pc = "idle"
     /\ last.op = "GET" /\ last.kind = "manifest"
     /\ last.status \in {"200", "404"})
    => (/\ get_stream_id(ManifestPath(last.source)) \in DOMAIN streams
        /\ launches = 1)

----------------------------------------------------------------------------
(* Properties of the arithmetic *)

\* C23: no sum of request_segment and ensure_segment_window goes beyond 32
\* bits, for any u32 segment number: a call neither panics nor computes with
\* a sum that wrapped around.
C23_SumsWithinU32 ==
    last.op = "request_segment" =>
        (last.result # "panic" /\ last.overflowed = {})

====
